---- MODULE Spec2Model ----
(***************************************************************************)
(* A model of the 2D live-result server (src/main.ts): registration and    *)
(* login over Deno KV, the JWT and admin middleware, the fill-credit       *)
(* ledger route, and the WebSocket broadcast hub.                          *)
(*                                                                         *)
(* The runtime is a single-threaded event loop: a handler runs without     *)
(* interruption up to its next `await` on the store, so each action below  *)
(* is the code between two store calls.  Code that touches no shared state *)
(* (parsing the body, hashing, drawing a UUID, verifying a token) is folded*)
(* into the action of the store call that follows it.                      *)
(***************************************************************************)
EXTENDS Integers, Sequences, FiniteSets, TLC

\* ------------------------------------------------------------------ bounds
MaxInflight == 2   \* requests whose handlers are suspended at the same time
MaxUsers == 2      \* primary records the store may come to hold
MaxCredit == 3     \* the largest finite credit a record is taken to
MaxSocks == 2      \* viewer connections ever opened
MaxInbox == 2      \* events a viewer receives (INFO included)

Slots == 1..MaxInflight
Ids == 1..MaxUsers
Socks == 1..MaxSocks

\* ---------------------------------------------------------- JavaScript values
\* A JSON-parsed value: its typeof, its numeric value and its text.
Num(n) == [k |-> "number", v |-> n, s |-> "finite"]
Infinity == [k |-> "number", v |-> 0, s |-> "Infinity"]
NaN == [k |-> "number", v |-> 0, s |-> "NaN"]
Str(t) == [k |-> "string", v |-> 0, s |-> t]
Undefined == [k |-> "undefined", v |-> 0, s |-> ""]

TypeOf(x) == x.k

\* !x
Falsy(x) ==
    \/ x.k = "undefined"
    \/ x.k = "string" /\ x.s = ""
    \/ x.k = "number" /\ (x.s = "NaN" \/ (x.s = "finite" /\ x.v = 0))

\* x <= 0 on numbers: false for NaN and for +Infinity
LeqZero(x) == x.k = "number" /\ x.s = "finite" /\ x.v <= 0

\* a + b on numbers
Plus(a, b) ==
    IF a.s = "NaN" \/ b.s = "NaN" THEN NaN
    ELSE IF a.s = "Infinity" \/ b.s = "Infinity" THEN Infinity
    ELSE Num(a.v + b.v)

\* ------------------------------------------------------------------ inputs
Usernames == {"alice", "bob"}
UsernameInputs == Usernames \cup {"", "al"}
PasswordInputs == {"secret", "12345"}
LoginPasswords == {"secret", "wrong!", ""}
\* what JSON.parse can yield for `amount`: 1e999 parses to Infinity, NaN has
\* no JSON text
AmountInputs == {Num(1), Num(2), Num(0), Num(-5), Infinity, Str("10"), Undefined}
ResultInputs == {Str("42"), Str("7"), Str("123"), Str(""), Num(42), Undefined}

\* ------------------------------------------------------------------- tokens
JWT_SECRET == "your-ultra-secure-secret-key"

NoClaim == [id |-> 0, username |-> "", isAdmin |-> FALSE]
NoSig == [alg |-> "", payload |-> NoClaim, key |-> ""]

\* HMAC over header and payload under a key: a tag that only the same
\* header, payload and key reproduce.
Sign(alg, payload, key) == [alg |-> alg, payload |-> payload, key |-> key]

\* djwt create(header, payload, key)
create(alg, payload, key) ==
    [kind |-> "jwt", alg |-> alg, payload |-> payload,
     sig |-> Sign(alg, payload, key), text |-> ""]

\* a header word that is no JWT: "Bearer", "", "garbage"
Word(t) == [kind |-> "word", alg |-> "", payload |-> NoClaim, sig |-> NoSig, text |-> t]

VerifyNoSignatureCheck(token, key, alg) == token.kind = "jwt"

\* djwt verify(jwt, key, alg): TRUE when it returns the payload, FALSE when it throws
verify(token, key, alg) ==
    /\ token.kind = "jwt"
    /\ token.alg = alg
    /\ token.sig = Sign(token.alg, token.payload, key)

\* an Authorization header: absent, or its text split on " "
NoHeader == [present |-> FALSE, parts |-> <<>>]
Header(parts) == [present |-> TRUE, parts |-> parts]
Bearer(t) == Header(<<Word("Bearer"), t>>)

\* authHeader?.split(" ")[1]
BearerToken(hdr) ==
    IF hdr.present /\ Len(hdr.parts) >= 2 THEN hdr.parts[2] ELSE Word("")

\* a valid token with one part altered: the payload, the signature, the header
Tampered(t) ==
    { [t EXCEPT !.payload.isAdmin = ~@],
      [t EXCEPT !.sig.key = "other-key"],
      [t EXCEPT !.alg = "none"] }

\* a well-formed token signed under a key that is not the server's
Forged == create("HS512", [id |-> 1, username |-> "alice", isAdmin |-> TRUE], "attacker-key")

\* --------------------------------------------------------------- middleware
\* the per-request context: c.set("user", ..), the short-circuit response,
\* the stages that ran, and whether next() was called
NewContext == [user |-> NoClaim, status |-> 0, stages |-> <<>>, next |-> TRUE]

\* const jwtAuth = async (c, next) => ..
jwtAuth(hdr, ctx) ==
    LET token == BearerToken(hdr)
        ran == [ctx EXCEPT !.stages = Append(@, "jwtAuth")]
    IN  IF token.kind = "word" /\ token.text = ""
        THEN [ran EXCEPT !.status = 401, !.next = FALSE]
        ELSE IF verify(token, JWT_SECRET, "HS512")
        THEN [ran EXCEPT !.user = token.payload]
        ELSE [ran EXCEPT !.status = 401, !.next = FALSE]

\* const adminAuth = async (c, next) => ..
adminAuth(ctx) ==
    LET ran == [ctx EXCEPT !.stages = Append(@, "adminAuth")]
    IN  IF ctx.user = NoClaim \/ ~ctx.user.isAdmin
        THEN [ran EXCEPT !.status = 403, !.next = FALSE]
        ELSE ran

AdminUseAdminFirst(hdr) ==
    LET c1 == adminAuth(NewContext)
    IN  IF c1.next THEN jwtAuth(hdr, c1) ELSE c1

\* admin.use("*", jwtAuth, adminAuth)
AdminUse(hdr) ==
    LET c1 == jwtAuth(hdr, NewContext)
    IN  IF c1.next THEN adminAuth(c1) ELSE c1

\* app.get("/api/user/me", jwtAuth, ..)
UserUse(hdr) == jwtAuth(hdr, NewContext)

\* ------------------------------------------------------------------- state
VARIABLES
    kvUsers,    \* ["users", id] -> User
    kvIndex,    \* ["users_by_username", username] -> {id}
    nextId,     \* the ids crypto.randomUUID() has handed out so far
    issued,     \* the tokens login has returned to clients
    req,        \* the handlers suspended at an await, one per slot
    resp,       \* the response a handler has just returned
    clients,    \* the Set<WebSocket>, in insertion order
    sock,       \* each viewer socket: readyState and the events it has received
    credited,   \* history: per username, the sum of the amounts committed for it
    completed,  \* history: usernames whose registration has answered success
    serial,     \* history: no two register handlers have been in flight together
    kvConfig,   \* ["config", "manual_2d"] -> the manual override
    kvResults,  \* ["2d_results", date, time] -> TwoDResult
    proxy,      \* the /api/2d-proxy handlers suspended at an await, one per slot
    presp       \* what a /api/2d-proxy handler has just returned or raised

vars == <<kvUsers, kvIndex, nextId, issued, req, resp, clients, sock,
          credited, completed, serial, kvConfig, kvResults, proxy, presp>>
proxyVars == <<kvConfig, kvResults, proxy, presp>>
storeVars == <<kvUsers, kvIndex>>
hubVars == <<clients, sock>>
histVars == <<credited, completed, serial>>

NoId == 0
NoHash == <<>>
NoUser == [id |-> NoId, username |-> "", passwordHash |-> NoHash,
           credit |-> Num(0), isAdmin |-> FALSE]

\* async function hashPassword(password): SHA-256 then base64
hashPassword(password) == <<"SHA-256", password>>

\* async function comparePassword(password, hash)
comparePassword(password, hash) == hashPassword(password) = hash

GetIndexFirst(username) == IF username \in Usernames THEN kvIndex[username] ELSE 1

\* kv.get(["users_by_username", username]).value
GetIndex(username) == IF username \in Usernames THEN kvIndex[username] ELSE NoId

\* kv.get(["users", id]).value
GetUser(id) == IF id \in Ids THEN kvUsers[id] ELSE NoUser

Idle == [route |-> "none", pc |-> "idle", hdr |-> NoHeader, user |-> NoClaim,
         username |-> "", password |-> "", amount |-> Undefined,
         userId |-> NoId, isFirst |-> FALSE]

NoResp == [route |-> "none", status |-> 0, hdr |-> NoHeader, user |-> NoClaim,
           stages |-> <<>>, username |-> "", password |-> "", amount |-> Undefined,
           result |-> Undefined, body |-> NoUser, token |-> Word(""), late |-> FALSE,
           raisedAt |-> NoId]

\* the Authorization headers a client can send: none, one without a token,
\* garbage, a token login issued, such a token with a part altered, a forgery
HeaderInputs ==
    {NoHeader, Header(<<Word("Bearer")>>), Bearer(Word("")), Bearer(Word("garbage")),
     Bearer(Forged)}
    \cup {Bearer(t) : t \in issued}
    \cup {Header(<<t>>) : t \in issued}
    \cup UNION {{Bearer(x) : x \in Tampered(t)} : t \in issued}

InFlight(route) == {s \in Slots : req[s].route = route}

\* a new request takes the first free slot (the slots are interchangeable)
Free(s) == req[s] = Idle /\ \A j \in Slots : j < s => req[j] # Idle

\* c.json(.., status): the handler in slot s returns
Reply(s, r) ==
    /\ resp' = r
    /\ req' = [req EXCEPT ![s] = Idle]

\* ------------------------------------------------- POST /api/auth/register
\* !username || !password || username.length < 3 || password.length < 6
RegisterInvalid(username, password) ==
    username = "" \/ password = "" \/ Len(username) < 3 \/ Len(password) < 6

IsFirstUserAlways == TRUE

\* (await kv.list({ prefix: ["users"] }).next()).done
IsFirstUser == \A i \in Ids : kvUsers[i] = NoUser

\* const newUser: User = { id, username, passwordHash, credit: 0, isAdmin }
NewUser(userId, username, passwordHash, isFirstUser) ==
    [id |-> userId, username |-> username, passwordHash |-> passwordHash,
     credit |-> Num(0), isAdmin |-> isFirstUser]

\* lines 107-120: validate, kv.get(usernameKey), then hash and draw the id
RegisterBegin(s) ==
    /\ resp = NoResp
    /\ Free(s)
    /\ \E username \in UsernameInputs, password \in PasswordInputs :
         LET r == [NoResp EXCEPT !.route = "register", !.username = username,
                                 !.password = password,
                                 !.late = (username \in completed)]
         IN  IF RegisterInvalid(username, password)
             THEN /\ Reply(s, [r EXCEPT !.status = 400])
                  /\ UNCHANGED <<nextId, serial>>
             ELSE IF GetIndex(username) # NoId
             THEN /\ Reply(s, [r EXCEPT !.status = 409])
                  /\ UNCHANGED <<nextId, serial>>
             ELSE /\ nextId < MaxUsers
                  /\ nextId' = nextId + 1
                  /\ req' = [req EXCEPT ![s] =
                        [Idle EXCEPT !.route = "register", !.pc = "list",
                                     !.username = username, !.password = password,
                                     !.userId = nextId + 1]]
                  /\ serial' = (serial /\ InFlight("register") = {})
                  /\ UNCHANGED resp
    /\ UNCHANGED <<proxyVars, storeVars, issued, hubVars, credited, completed>>

\* line 121: const isFirstUser = (await kv.list(..).next()).done
RegisterList(s) ==
    /\ resp = NoResp
    /\ req[s].route = "register" /\ req[s].pc = "list"
    /\ req' = [req EXCEPT ![s].isFirst = IsFirstUser, ![s].pc = "set_user"]
    /\ UNCHANGED <<proxyVars, storeVars, nextId, issued, resp, hubVars, histVars>>

\* the index entry would be written with no primary record behind it
RegisterSetUserSkipped(s) ==
    /\ resp = NoResp
    /\ req[s].route = "register" /\ req[s].pc = "set_user"
    /\ req' = [req EXCEPT ![s].pc = "set_index"]
    /\ UNCHANGED <<proxyVars, storeVars, nextId, issued, resp, hubVars, histVars>>

\* line 131: await kv.set(["users", userId], newUser)
RegisterSetUser(s) ==
    /\ resp = NoResp
    /\ req[s].route = "register" /\ req[s].pc = "set_user"
    /\ kvUsers' = [kvUsers EXCEPT ![req[s].userId] =
            NewUser(req[s].userId, req[s].username,
                    hashPassword(req[s].password), req[s].isFirst)]
    /\ req' = [req EXCEPT ![s].pc = "set_index"]
    /\ UNCHANGED <<proxyVars, kvIndex, nextId, issued, resp, hubVars, histVars>>

\* lines 132-134: await kv.set(usernameKey, { id: userId }); return 200
RegisterSetIndex(s) ==
    /\ resp = NoResp
    /\ req[s].route = "register" /\ req[s].pc = "set_index"
    /\ kvIndex' = [kvIndex EXCEPT ![req[s].username] = req[s].userId]
    /\ Reply(s, [NoResp EXCEPT !.route = "register", !.status = 200,
                               !.username = req[s].username,
                               !.password = req[s].password,
                               !.body = kvUsers[req[s].userId]])
    /\ completed' = completed \cup {req[s].username}
    /\ UNCHANGED <<proxyVars, kvUsers, nextId, issued, hubVars, credited, serial>>

\* lines 131-132 when the awaited kv.set rejects: the handler has no
\* try/catch, Hono's error handler answers 500 and the handler is abandoned
\* where it stood, before the first write or between the two
RegisterSetRaises(s) ==
    /\ resp = NoResp
    /\ req[s].route = "register" /\ req[s].pc \in {"set_user", "set_index"}
    /\ Reply(s, [NoResp EXCEPT !.route = "register", !.status = 500,
                               !.username = req[s].username,
                               !.password = req[s].password])
    /\ UNCHANGED <<proxyVars, storeVars, nextId, issued, hubVars, histVars>>

\* ---------------------------------------------------- POST /api/auth/login
\* lines 138-146: validate, kv.get(["users_by_username", username])
LoginBegin(s) ==
    /\ resp = NoResp
    /\ Free(s)
    /\ \E username \in UsernameInputs, password \in LoginPasswords :
         LET r == [NoResp EXCEPT !.route = "login", !.username = username,
                                 !.password = password]
         IN  IF username = "" \/ password = ""
             THEN Reply(s, [r EXCEPT !.status = 400])
             ELSE IF GetIndex(username) = NoId
             THEN Reply(s, [r EXCEPT !.status = 401])
             ELSE /\ req' = [req EXCEPT ![s] =
                        [Idle EXCEPT !.route = "login", !.pc = "get_user",
                                     !.username = username, !.password = password,
                                     !.userId = GetIndex(username)]]
                  /\ UNCHANGED resp
    /\ UNCHANGED <<proxyVars, storeVars, nextId, issued, hubVars, histVars>>

\* lines 148-158: kv.get(["users", id]), compare the hash, sign the claim
LoginGetUser(s) ==
    /\ resp = NoResp
    /\ req[s].route = "login" /\ req[s].pc = "get_user"
    /\ LET user == GetUser(req[s].userId)
           r == [NoResp EXCEPT !.route = "login", !.username = req[s].username,
                               !.password = req[s].password]
           payload == [id |-> user.id, username |-> user.username,
                       isAdmin |-> user.isAdmin]
           token == create("HS512", payload, JWT_SECRET)
       IN  IF user = NoUser \/ ~comparePassword(req[s].password, user.passwordHash)
           THEN /\ Reply(s, [r EXCEPT !.status = 401])
                /\ UNCHANGED issued
           ELSE /\ Reply(s, [r EXCEPT !.status = 200, !.token = token, !.body = user])
                /\ issued' = issued \cup {token}
    /\ UNCHANGED <<proxyVars, storeVars, nextId, hubVars, histVars>>

\* --------------------------------------------------------- GET /api/user/me
\* lines 208-217: jwtAuth, then one kv.get and the reply
UserMe ==
    /\ resp = NoResp
    /\ \E hdr \in HeaderInputs :
         LET ctx == UserUse(hdr)
             r == [NoResp EXCEPT !.route = "me", !.hdr = hdr, !.user = ctx.user,
                                 !.stages = ctx.stages]
             user == GetUser(ctx.user.id)
         IN  IF ~ctx.next
             THEN resp' = [r EXCEPT !.status = ctx.status]
             ELSE IF user = NoUser
             THEN resp' = [r EXCEPT !.status = 404, !.stages = Append(@, "handler")]
             ELSE resp' = [r EXCEPT !.status = 200, !.stages = Append(@, "handler"),
                                    !.body = user]
    /\ UNCHANGED <<proxyVars, storeVars, nextId, issued, req, hubVars, histVars>>

\* ------------------------------------------------ POST /api/admin/fill-credit
\* !username || typeof amount !== 'number' || amount <= 0
FillInvalid(username, amount) ==
    username = "" \/ TypeOf(amount) # "number" \/ LeqZero(amount)

KvSumDropped(user, amount) == user

KvSumOverwrite(user, amount) == [user EXCEPT !.credit = amount]

\* kv.atomic().mutate({ type: "sum", key, value: { credit: amount } }): the
\* store adds the operand to the stored value in one step, with no read by
\* the handler in between
KvSum(user, amount) == [user EXCEPT !.credit = Plus(@, amount)]

RECURSIVE PendingSum(_, _)
\* the finite amounts of the admitted requests in slots S that target record id
PendingSum(S, id) ==
    IF S = {} THEN 0
    ELSE LET s == CHOOSE x \in S : TRUE
             a == IF req[s].route = "fill" /\ req[s].pc = "commit"
                     /\ req[s].userId = id /\ req[s].amount.s = "finite"
                  THEN req[s].amount.v ELSE 0
         IN  a + PendingSum(S \ {s}, id)

\* lines 166-177 behind admin.use: the gates, the body check, the index read
FillBegin(s) ==
    /\ resp = NoResp
    /\ Free(s)
    /\ \E hdr \in HeaderInputs :
         LET ctx == AdminUse(hdr)
             r == [NoResp EXCEPT !.route = "fill", !.hdr = hdr, !.user = ctx.user,
                                 !.stages = ctx.stages]
         IN  IF ~ctx.next
             THEN Reply(s, [r EXCEPT !.status = ctx.status])
             ELSE \E username \in UsernameInputs, amount \in AmountInputs :
                    LET h == [r EXCEPT !.stages = Append(@, "handler"),
                                       !.username = username, !.amount = amount]
                        userId == GetIndex(username)
                    IN  IF FillInvalid(username, amount)
                        THEN Reply(s, [h EXCEPT !.status = 400])
                        ELSE IF userId = NoId
                        THEN Reply(s, [h EXCEPT !.status = 404])
                        ELSE /\ amount.s = "finite" =>
                                   GetUser(userId).credit.v
                                     + PendingSum(Slots, userId) + amount.v <= MaxCredit
                             /\ req' = [req EXCEPT ![s] =
                                   [Idle EXCEPT !.route = "fill", !.pc = "commit",
                                                !.hdr = hdr, !.user = ctx.user,
                                                !.username = username,
                                                !.amount = amount, !.userId = userId]]
                             /\ UNCHANGED resp
    /\ UNCHANGED <<proxyVars, storeVars, nextId, issued, hubVars, histVars>>

FillResp(s) ==
    [NoResp EXCEPT !.route = "fill", !.hdr = req[s].hdr, !.user = req[s].user,
                   !.stages = <<"jwtAuth", "adminAuth", "handler">>,
                   !.username = req[s].username, !.amount = req[s].amount]

CommitFailureCaughtByJwtAuth(outcome) ==
    IF outcome = "throw"
    THEN [status |-> 401, stages |-> <<"jwtAuth.catch">>]
    ELSE [status |-> 500, stages |-> <<>>]

\* a commit that reports failure falls through to line 192.  A commit that
\* rejects leaves the handler as an exception: Hono's dispatch hands it to
\* the error handler at the handler's own level, which answers 500, so the
\* await next() of jwtAuth (line 86) returns and its catch does not run
CommitFailure(outcome) ==
    [status |-> 500, stages |-> IF outcome = "throw" THEN <<"onError">> ELSE <<>>]

\* lines 180-182, 192: the commit applies the sum, reports failure, or raises
\* (Hono's error handler then answers 500)
FillCommit(s) ==
    /\ resp = NoResp
    /\ req[s].route = "fill" /\ req[s].pc = "commit"
    /\ \E outcome \in {"ok", "not_ok", "throw"} :
         IF outcome = "ok"
         THEN /\ kvUsers' = [kvUsers EXCEPT ![req[s].userId] = KvSum(@, req[s].amount)]
              /\ credited' = [credited EXCEPT ![req[s].username] = Plus(@, req[s].amount)]
              /\ req' = [req EXCEPT ![s].pc = "read"]
              /\ UNCHANGED resp
         ELSE /\ Reply(s, [FillResp(s) EXCEPT
                               !.status = CommitFailure(outcome).status,
                               !.stages = @ \o CommitFailure(outcome).stages])
              /\ UNCHANGED <<kvUsers, credited>>
    /\ UNCHANGED <<proxyVars, kvIndex, nextId, issued, hubVars, completed, serial>>

\* lines 184-190: const updatedEntry = await kv.get<User>(key); return 200
FillRead(s) ==
    /\ resp = NoResp
    /\ req[s].route = "fill" /\ req[s].pc = "read"
    /\ Reply(s, [FillResp(s) EXCEPT !.status = 200, !.body = GetUser(req[s].userId)])
    /\ UNCHANGED <<proxyVars, storeVars, nextId, issued, hubVars, histVars>>

\* ------------------------------------------------------------ the viewer hub
NoSock == [readyState |-> "NONE", inbox |-> <<>>, closeFired |-> FALSE]

ClientSet == {clients[i] : i \in 1..Len(clients)}

\* Set.delete: the insertion order of the others is kept
RECURSIVE Delete(_, _)
Delete(cs, k) ==
    IF cs = <<>> THEN <<>>
    ELSE IF Head(cs) = k THEN Tail(cs)
    ELSE <<Head(cs)>> \o Delete(Tail(cs), k)

\* Set.add: no effect on a member, else appended
Add(cs, k) == IF \E i \in 1..Len(cs) : cs[i] = k THEN cs ELSE Append(cs, k)

\* GET /ws/live-result, handleWebSocket: the upgrade creates the socket
Upgrade(k) ==
    /\ sock[k].readyState = "NONE"
    /\ \A j \in Socks : j < k => sock[j].readyState # "NONE"
    /\ sock' = [sock EXCEPT ![k].readyState = "CONNECTING"]
    /\ UNCHANGED <<proxyVars, storeVars, nextId, issued, req, resp, clients, histVars>>

OnOpenAddOnly(k) ==
    /\ sock[k].readyState = "CONNECTING"
    /\ clients' = Add(clients, k)
    /\ sock' = [sock EXCEPT ![k].readyState = "OPEN"]
    /\ UNCHANGED <<proxyVars, storeVars, nextId, issued, req, resp, histVars>>

\* socket.onopen: clients.add(socket); socket.send(INFO)
OnOpen(k) ==
    /\ sock[k].readyState = "CONNECTING"
    /\ clients' = Add(clients, k)
    /\ sock' = [sock EXCEPT ![k].readyState = "OPEN",
                            ![k].inbox = Append(@, [type |-> "INFO", data |-> ""])]
    /\ UNCHANGED <<proxyVars, storeVars, nextId, issued, req, resp, histVars>>

\* the closing handshake has begun: readyState leaves OPEN before any event
Closing(k) ==
    /\ sock[k].readyState = "OPEN"
    /\ sock' = [sock EXCEPT ![k].readyState = "CLOSING"]
    /\ UNCHANGED <<proxyVars, storeVars, nextId, issued, req, resp, clients, histVars>>

\* socket.onerror: the handler only logs
OnError(k) ==
    /\ sock[k].readyState \in {"CONNECTING", "OPEN", "CLOSING"}
    /\ sock' = [sock EXCEPT ![k].readyState = "CLOSED"]
    /\ UNCHANGED <<proxyVars, storeVars, nextId, issued, req, resp, clients, histVars>>

\* socket.onclose: clients.delete(socket)
OnClose(k) ==
    /\ sock[k].readyState # "NONE"
    /\ ~sock[k].closeFired
    /\ clients' = Delete(clients, k)
    /\ sock' = [sock EXCEPT ![k].readyState = "CLOSED", ![k].closeFired = TRUE]
    /\ UNCHANGED <<proxyVars, storeVars, nextId, issued, req, resp, histVars>>

RECURSIVE SentTo(_, _)
\* for (const client of clients) if (client.readyState === OPEN) client.send(..):
\* the clients whose send returned, up to the first send that raised
SentTo(cs, bad) ==
    IF cs = <<>> THEN <<>>
    ELSE IF sock[Head(cs)].readyState # "OPEN" THEN SentTo(Tail(cs), bad)
    ELSE IF Head(cs) \in bad THEN <<>>
    ELSE <<Head(cs)>> \o SentTo(Tail(cs), bad)

\* the first client whose send raised, NoId when none did
RaisedAt(cs, bad) ==
    LET hit == {i \in 1..Len(cs) : sock[cs[i]].readyState = "OPEN" /\ cs[i] \in bad}
    IN  IF hit = {} THEN NoId
        ELSE cs[CHOOSE i \in hit : \A j \in hit : i <= j]

\* async function broadcastResult(result): the sockets after the call
broadcastResult(result, bad) ==
    LET got == SentTo(clients, bad)
    IN  [k \in Socks |->
           IF \E i \in 1..Len(got) : got[i] = k
           THEN [sock[k] EXCEPT !.inbox = Append(@, [type |-> "RESULT", data |-> result.s])]
           ELSE sock[k]]

BroadcastInvalidAnyString(result) ==
    Falsy(result) \/ TypeOf(result) # "string"

\* !result || typeof result !== 'string' || result.length !== 2
BroadcastInvalid(result) ==
    Falsy(result) \/ TypeOf(result) # "string" \/ Len(result.s) # 2

\* POST /api/admin/broadcast-result, lines 195-202 behind admin.use; the loop
\* has no await, so the whole call is one step.  bad: the sockets whose send
\* would raise
BroadcastResultRoute ==
    /\ resp = NoResp
    /\ \E hdr \in HeaderInputs :
         LET ctx == AdminUse(hdr)
             r == [NoResp EXCEPT !.route = "broadcast", !.hdr = hdr, !.user = ctx.user,
                                 !.stages = ctx.stages]
         IN  IF ~ctx.next
             THEN /\ resp' = [r EXCEPT !.status = ctx.status]
                  /\ UNCHANGED sock
             ELSE \E result \in ResultInputs, bad \in SUBSET ClientSet :
                    LET h == [r EXCEPT !.stages = Append(@, "handler"),
                                       !.result = result]
                        raised == RaisedAt(clients, bad)
                    IN  IF BroadcastInvalid(result)
                        THEN /\ resp' = [h EXCEPT !.status = 400]
                             /\ UNCHANGED sock
                        ELSE /\ \A k \in ClientSet : Len(sock[k].inbox) < MaxInbox
                             /\ sock' = broadcastResult(result, bad)
                             /\ resp' = IF raised = NoId
                                        THEN [h EXCEPT !.status = 200]
                                        ELSE [h EXCEPT !.status = 500,
                                                       !.raisedAt = raised,
                                                       !.stages = Append(@, "onError")]
    /\ UNCHANGED <<proxyVars, storeVars, nextId, issued, req, clients, histVars>>

\* Deno.serve writes the returned response to the client.  A handler's return
\* and the write of its response are one turn of the event loop, so handler
\* steps wait for it: resp shows each response in the state it was made in.
Respond ==
    /\ resp # NoResp
    /\ resp' = NoResp
    /\ UNCHANGED <<proxyVars, storeVars, nextId, issued, req, hubVars, histVars>>

\* ------------------------------------------------------- GET /api/2d-proxy
\* JSON bodies of the upstream feed: null, an object with or without a live
\* field, an array of history rows; NotJson is a body res.json() rejects and
\* Rejected a fetch whose promise rejects
NoLive == [present |-> FALSE, twod |-> "", set |-> "", value |-> "", time |-> ""]
Live(twod, set, value, time) ==
    [present |-> TRUE, twod |-> twod, set |-> set, value |-> value, time |-> time]
NullRow == [null |-> TRUE, date |-> "", open_time |-> "", set |-> "", value |-> "",
            twod |-> ""]
Row(date, open_time, twod) ==
    [null |-> FALSE, date |-> date, open_time |-> open_time, set |-> "1,320.55",
     value |-> "48,204.11", twod |-> twod]
JNull == [kind |-> "null", live |-> NoLive, rows |-> <<>>]
JObject(live) == [kind |-> "object", live |-> live, rows |-> <<>>]
JArray(rows) == [kind |-> "array", live |-> NoLive, rows |-> rows]
NotJson == [kind |-> "text", live |-> NoLive, rows |-> <<>>]
Rejected == [kind |-> "rejected", live |-> NoLive, rows |-> <<>>]

\* what ["config", "manual_2d"] may hold: nothing, "", a blank, a value
ConfigInputs == {Undefined, Str(""), Str(" "), Str("42")}

\* what https://api.thaistock2d.com/live may answer
LiveBodies ==
    {NotJson, JNull, JObject(NoLive), JObject(Live("", "", "", "")),
     JObject(Live("42", "1,320.55", "48,204.11", "12:01:00"))}

\* what https://api.thaistock2d.com/2d_result may answer
HistoryBodies ==
    {NotJson, JNull, JObject(NoLive), JArray(<<>>), JArray(<<NullRow>>),
     JArray(<<Row("2024-05-02", "12:01:00", "42")>>),
     JArray(<<Row("2024-05-02", "16:30:00", "07"), Row("2024-05-02", "12:01:00", "42")>>)}

\* String.prototype.trim on the texts above
Trim(t) == IF t = " " THEN "" ELSE t

\* export async function getConfig(): { manual2d: manual2d.value || "" }
getConfig == [manual2d |-> IF Falsy(kvConfig) THEN "" ELSE kvConfig.s]

\* config.manual2d && config.manual2d.trim() !== ""
ManualOverride(config) == config.manual2d # "" /\ Trim(config.manual2d) # ""

\* !data.live || !data.live.twod, on a body that is not null
LiveEmpty(data) == ~data.live.present \/ data.live.twod = ""

\* historyData && historyData.length > 0
HasRows(historyData) == historyData.kind = "array" /\ Len(historyData.rows) > 0

\* the payload of line 30
Manual(manual2d) == JObject(Live(manual2d, "MANUAL", "ADMIN", "Live"))

\* the payload of line 45
Closed(last) ==
    JObject(Live(last.twod, last.set, last.value, "Closed (" \o last.open_time \o ")"))

\* the payload of line 50
Sentinel == JObject(Live("--", "Error", "Error", "Offline"))

\* save2DResult's argument, line 44
TwoDResult(last) ==
    [date |-> last.date, time |-> last.open_time, set |-> last.set,
     value |-> last.value, twod |-> last.twod]

ProxyIdle == [pc |-> "idle", data |-> JNull, last |-> NullRow]
NoProxyResp == [kind |-> "none", body |-> JNull, cause |-> ""]

\* c.json(body)
ProxyJson(body) == [kind |-> "json", body |-> body, cause |-> ""]

\* an exception that leaves the handler (Hono's error handler answers it)
ProxyEscaped(cause) == [kind |-> "exception", body |-> JNull, cause |-> cause]

ProxyCatchLiveOnly(cause) ==
    IF cause \in {"live", "live_json"}
    THEN [kind |-> "json", body |-> Sentinel, cause |-> cause]
    ELSE ProxyEscaped(cause)

\* lines 33, 49-51: try { .. } catch { return c.json(sentinel) } around
\* everything after the override check
ProxyCatch(cause) == [kind |-> "json", body |-> Sentinel, cause |-> cause]

ProxyFree(s) == proxy[s] = ProxyIdle /\ \A j \in Slots : j < s => proxy[j] # ProxyIdle

ProxyReply(s, r) ==
    /\ presp' = r
    /\ proxy' = [proxy EXCEPT ![s] = ProxyIdle]

\* lines 27-31: await getConfig(), outside the try, then the manual override
ProxyBegin(s) ==
    /\ presp = NoProxyResp
    /\ ProxyFree(s)
    /\ \E outcome \in {"ok", "throw"} :
         IF outcome = "throw"
         THEN ProxyReply(s, ProxyEscaped("config"))
         ELSE IF ManualOverride(getConfig)
         THEN ProxyReply(s, ProxyJson(Manual(getConfig.manual2d)))
         ELSE /\ proxy' = [proxy EXCEPT ![s].pc = "live"]
              /\ UNCHANGED presp
    /\ UNCHANGED <<storeVars, nextId, issued, req, resp, hubVars, histVars,
                   kvConfig, kvResults>>

\* lines 34-38, 48: the live fetch and res.json()
ProxyFetchLive(s) ==
    /\ presp = NoProxyResp
    /\ proxy[s].pc = "live"
    /\ \E data \in {Rejected} \cup LiveBodies :
         IF data = Rejected THEN ProxyReply(s, ProxyCatch("live"))
         ELSE IF data = NotJson THEN ProxyReply(s, ProxyCatch("live_json"))
         ELSE IF data = JNull THEN ProxyReply(s, ProxyCatch("live_null"))
         ELSE IF LiveEmpty(data)
         THEN /\ proxy' = [proxy EXCEPT ![s].pc = "history", ![s].data = data]
              /\ UNCHANGED presp
         ELSE ProxyReply(s, ProxyJson(data))
    /\ UNCHANGED <<storeVars, nextId, issued, req, resp, hubVars, histVars,
                   kvConfig, kvResults>>

\* lines 39-42, 48: the history fetch and historyRes.json()
ProxyFetchHistory(s) ==
    /\ presp = NoProxyResp
    /\ proxy[s].pc = "history"
    /\ \E historyData \in {Rejected} \cup HistoryBodies :
         IF historyData = Rejected THEN ProxyReply(s, ProxyCatch("history"))
         ELSE IF historyData = NotJson THEN ProxyReply(s, ProxyCatch("history_json"))
         ELSE IF ~HasRows(historyData) THEN ProxyReply(s, ProxyJson(proxy[s].data))
         ELSE IF historyData.rows[1].null
         THEN ProxyReply(s, ProxyCatch("history_null"))
         ELSE /\ proxy' = [proxy EXCEPT ![s].pc = "save",
                                        ![s].last = historyData.rows[1]]
              /\ UNCHANGED presp
    /\ UNCHANGED <<storeVars, nextId, issued, req, resp, hubVars, histVars,
                   kvConfig, kvResults>>

\* lines 44-45: await save2DResult(..), inside the try, then the reply
ProxySave(s) ==
    /\ presp = NoProxyResp
    /\ proxy[s].pc = "save"
    /\ \E outcome \in {"ok", "throw"} :
         IF outcome = "throw"
         THEN /\ ProxyReply(s, ProxyCatch("save"))
              /\ UNCHANGED kvResults
         ELSE /\ kvResults' = kvResults \cup {TwoDResult(proxy[s].last)}
              /\ ProxyReply(s, ProxyJson(Closed(proxy[s].last)))
    /\ UNCHANGED <<storeVars, nextId, issued, req, resp, hubVars, histVars, kvConfig>>

\* the response is written to the client
ProxyRespond ==
    /\ presp # NoProxyResp
    /\ presp' = NoProxyResp
    /\ UNCHANGED <<storeVars, nextId, issued, req, resp, hubVars, histVars,
                   kvConfig, kvResults, proxy>>

\* ------------------------------------------------------------ specifications
\* a fresh deployment: an empty store, no viewer
Init ==
    /\ kvUsers = [i \in Ids |-> NoUser]
    /\ kvIndex = [u \in Usernames |-> NoId]
    /\ nextId = 0
    /\ issued = {}
    /\ req = [s \in Slots |-> Idle]
    /\ resp = NoResp
    /\ clients = <<>>
    /\ sock = [k \in Socks |-> NoSock]
    /\ credited = [u \in Usernames |-> Num(0)]
    /\ completed = {}
    /\ serial = TRUE
    /\ kvConfig = Undefined
    /\ kvResults = {}
    /\ proxy = [s \in Slots |-> ProxyIdle]
    /\ presp = NoProxyResp

\* registration and login on a fresh deployment
Next ==
    \/ \E s \in Slots : RegisterBegin(s)
    \/ \E s \in Slots : RegisterList(s)
    \/ \E s \in Slots : RegisterSetUser(s)
    \/ \E s \in Slots : RegisterSetIndex(s)
    \/ \E s \in Slots : LoginBegin(s)
    \/ \E s \in Slots : LoginGetUser(s)
    \/ Respond

Spec == Init /\ [][Next]_vars

\* The store is durable (Deno.openKv) and tokens never expire, so a process
\* also starts on the store an earlier run left and meets the tokens that run
\* issued: alice registered first (the admin), then bob, both have logged in.
\* RestartReached is that state as Spec reaches it.
Alice == NewUser(1, "alice", hashPassword("secret"), TRUE)
Bob == NewUser(2, "bob", hashPassword("secret"), FALSE)
TokenOf(user) ==
    create("HS512", [id |-> user.id, username |-> user.username,
                     isAdmin |-> user.isAdmin], JWT_SECRET)

InitRestart ==
    /\ kvUsers = [i \in Ids |-> IF i = 1 THEN Alice ELSE IF i = 2 THEN Bob ELSE NoUser]
    /\ kvIndex = [u \in Usernames |-> IF u = "alice" THEN 1 ELSE 2]
    /\ nextId = 2
    /\ issued = {TokenOf(Alice), TokenOf(Bob)}
    /\ req = [s \in Slots |-> Idle]
    /\ resp = NoResp
    /\ clients = <<>>
    /\ sock = [k \in Socks |-> NoSock]
    /\ credited = [u \in Usernames |-> Num(0)]
    /\ completed = Usernames
    /\ serial = TRUE
    /\ kvConfig = Undefined
    /\ kvResults = {}
    /\ proxy = [s \in Slots |-> ProxyIdle]
    /\ presp = NoProxyResp

\* the protected routes over the ledger
NextLedger ==
    \/ \E s \in Slots : FillBegin(s)
    \/ \E s \in Slots : FillCommit(s)
    \/ \E s \in Slots : FillRead(s)
    \/ UserMe
    \/ BroadcastResultRoute
    \/ Respond

SpecLedger == InitRestart /\ [][NextLedger]_vars

\* the viewer hub and the route that feeds it
NextHub ==
    \/ \E k \in Socks : Upgrade(k)
    \/ \E k \in Socks : OnOpen(k)
    \/ \E k \in Socks : Closing(k)
    \/ \E k \in Socks : OnError(k)
    \/ \E k \in Socks : OnClose(k)
    \/ BroadcastResultRoute
    \/ Respond

SpecHub == InitRestart /\ [][NextHub]_vars

\* registration on a fresh deployment over a store whose writes may fail
NextAbandon ==
    \/ \E s \in Slots : RegisterBegin(s)
    \/ \E s \in Slots : RegisterList(s)
    \/ \E s \in Slots : RegisterSetUser(s)
    \/ \E s \in Slots : RegisterSetIndex(s)
    \/ \E s \in Slots : RegisterSetRaises(s)
    \/ Respond

SpecAbandon == Init /\ [][NextAbandon]_vars

\* the store an earlier run left when only alice, the admin, had registered
\* and logged in (the registrations that drew the other ids stopped before
\* their first write): one id is left, so that a registration of bob runs
\* next to the fill-credit requests
InitAdmin ==
    /\ kvUsers = [i \in Ids |-> IF i = 1 THEN Alice ELSE NoUser]
    /\ kvIndex = [u \in Usernames |-> IF u = "alice" THEN 1 ELSE NoId]
    /\ nextId = MaxUsers - 1
    /\ issued = {TokenOf(Alice)}
    /\ req = [s \in Slots |-> Idle]
    /\ resp = NoResp
    /\ clients = <<>>
    /\ sock = [k \in Socks |-> NoSock]
    /\ credited = [u \in Usernames |-> Num(0)]
    /\ completed = {"alice"}
    /\ serial = TRUE
    /\ kvConfig = Undefined
    /\ kvResults = {}
    /\ proxy = [s \in Slots |-> ProxyIdle]
    /\ presp = NoProxyResp

NextCredit ==
    \/ \E s \in Slots : RegisterBegin(s)
    \/ \E s \in Slots : RegisterList(s)
    \/ \E s \in Slots : RegisterSetUser(s)
    \/ \E s \in Slots : RegisterSetIndex(s)
    \/ \E s \in Slots : FillBegin(s)
    \/ \E s \in Slots : FillCommit(s)
    \/ \E s \in Slots : FillRead(s)
    \/ Respond

SpecCredit == InitAdmin /\ [][NextCredit]_vars

\* the proxy over a store whose override an operator may have set
InitProxy ==
    /\ kvUsers = [i \in Ids |-> NoUser]
    /\ kvIndex = [u \in Usernames |-> NoId]
    /\ nextId = 0
    /\ issued = {}
    /\ req = [s \in Slots |-> Idle]
    /\ resp = NoResp
    /\ clients = <<>>
    /\ sock = [k \in Socks |-> NoSock]
    /\ credited = [u \in Usernames |-> Num(0)]
    /\ completed = {}
    /\ serial = TRUE
    /\ kvConfig \in ConfigInputs
    /\ kvResults = {}
    /\ proxy = [s \in Slots |-> ProxyIdle]
    /\ presp = NoProxyResp

NextProxy ==
    \/ \E s \in Slots : ProxyBegin(s)
    \/ \E s \in Slots : ProxyFetchLive(s)
    \/ \E s \in Slots : ProxyFetchHistory(s)
    \/ \E s \in Slots : ProxySave(s)
    \/ ProxyRespond

SpecProxy == InitProxy /\ [][NextProxy]_vars

RestartReached ==
    /\ kvUsers[1] = Alice /\ kvUsers[2] = Bob
    /\ kvIndex["alice"] = 1 /\ kvIndex["bob"] = 2
    /\ issued = {TokenOf(Alice), TokenOf(Bob)}
    /\ \A s \in Slots : req[s] = Idle
    /\ resp = NoResp /\ serial

\* ------------------------------------------------------------------- claims
StartCredit == Num(0)

\* the record a username resolves to, as login and fill-credit read it
UserOf(u) == GetUser(GetIndex(u))

RecordsOf(u) == {i \in Ids : kvUsers[i].username = u}

PositiveFinite(a) == a.k = "number" /\ a.s = "finite" /\ a.v > 0

Ran(stages, stage) == \E i \in 1..Len(stages) : stages[i] = stage

\* C1: whatever the interleaving of the fill-credit requests for a registered
\* username, its credit is the starting credit plus the sum of the amounts of
\* all the requests that have committed: no committed amount is lost.
C1_NoLostUpdate ==
    \A u \in Usernames : UserOf(u).credit = Plus(StartCredit, credited[u])

\* two requests for alice have both committed before either has answered
C1_Witness ==
    /\ \A s \in {1, 2} : /\ req[s].route = "fill" /\ req[s].pc = "read"
                         /\ req[s].username = "alice"
                         /\ PositiveFinite(req[s].amount)
    /\ UserOf("alice").credit = Plus(req[1].amount, req[2].amount)

\* C2: the store never holds two primary records with the same username.
C2_OneRecordPerUsername ==
    \A u \in Usernames : Cardinality(RecordsOf(u)) <= 1

\* a register request that began once a registration of its username had
\* answered success
LateRegister ==
    /\ resp = NoResp
    /\ resp'.route = "register"
    /\ resp'.late
    /\ ~RegisterInvalid(resp'.username, resp'.password)

\* C3: a register request for a username that starts after a registration of
\* that username has completed is answered 409, writes nothing, and exactly
\* one record of the username exists.
C3_LateRegisterConflicts ==
    [][LateRegister =>
         /\ resp'.status = 409
         /\ UNCHANGED storeVars
         /\ Cardinality(RecordsOf(resp'.username)) = 1]_vars

Admins == {i \in Ids : kvUsers[i].isAdmin}

\* C4: at most one stored user is an admin, and once a registration has
\* completed exactly one is.
C4_OneAdmin ==
    /\ Cardinality(Admins) <= 1
    /\ completed # {} => Cardinality(Admins) = 1

AdminRoutes == {"fill", "broadcast"}
ProtectedRoutes == {"fill", "broadcast", "me"}

\* C6: on an admin route a request without a token is answered 401, one with
\* a token login issued to a non-admin is answered 403, the handler runs only
\* for a token login issued to an admin, and the admin gate runs only after
\* the token gate has accepted the token.
C6_AdminGate ==
    /\ resp.route \in AdminRoutes =>
         LET token == BearerToken(resp.hdr)
             ranHandler == Ran(resp.stages, "handler")
             ranAdmin == Ran(resp.stages, "adminAuth")
         IN  /\ token = Word("") => resp.status = 401
             /\ (token \in issued /\ ~token.payload.isAdmin) => resp.status = 403
             /\ ranHandler => (token \in issued /\ token.payload.isAdmin)
             /\ ranAdmin => (resp.stages[1] = "jwtAuth" /\ resp.stages[2] = "adminAuth"
                             /\ token \in issued /\ resp.user = token.payload)
    /\ \A s \in Slots : req[s].route \in AdminRoutes =>
         LET token == BearerToken(req[s].hdr)
         IN  token \in issued /\ token.payload.isAdmin

\* a non-admin's token has been refused on an admin route
C6_Witness ==
    /\ resp.route \in AdminRoutes
    /\ resp.status = 403
    /\ BearerToken(resp.hdr) = TokenOf(Bob)

\* a request to a protected route has just been answered at its first step
\* and its token is none that login issued
RejectedToken ==
    /\ resp = NoResp
    /\ resp'.route \in ProtectedRoutes
    /\ BearerToken(resp'.hdr) \notin issued

\* C7: a request to a protected route whose token is absent, malformed or
\* not one signed under the server secret is answered 401 by the token gate
\* alone: no claim is attached, no handler runs or is left in flight, and
\* neither the store nor the viewers change.
C7_BadTokenUnauthorized ==
    [][/\ RejectedToken =>
            /\ resp'.status = 401
            /\ resp'.user = NoClaim
            /\ resp'.stages = <<"jwtAuth">>
            /\ UNCHANGED <<storeVars, hubVars>>
       /\ \A s \in Slots : req'[s].route \in ProtectedRoutes =>
            BearerToken(req'[s].hdr) \in issued]_vars

\* the admin's token with one part altered has been refused
C7_Witness ==
    /\ resp.route = "fill"
    /\ resp.status = 401
    /\ BearerToken(resp.hdr) \in Tampered(TokenOf(Alice))

\* the broadcast-result handler has just run broadcastResult
BroadcastCall ==
    /\ resp = NoResp
    /\ resp'.route = "broadcast"
    /\ resp'.status \in {200, 500}

ResultEvent(result) == [type |-> "RESULT", data |-> result.s]

OpenViewers == {k \in ClientSet : sock[k].readyState = "OPEN"}

\* C8: a broadcast call sends the RESULT event once to every connection that
\* is registered and open when it begins, and to no other connection.
C8_BroadcastToOpenViewers ==
    [][BroadcastCall =>
         \A k \in Socks :
            sock'[k].inbox = IF k \in OpenViewers
                             THEN Append(sock[k].inbox, ResultEvent(resp'.result))
                             ELSE sock[k].inbox]_vars

\* C9: when the send to one connection raises, every other open connection
\* still gets the event and the request is still answered with success.
C9_SendFailureIsolated ==
    [][(BroadcastCall /\ resp'.raisedAt # NoId) =>
         /\ resp'.status = 200
         /\ \A k \in OpenViewers \ {resp'.raisedAt} :
              sock'[k].inbox = Append(sock[k].inbox, ResultEvent(resp'.result))]_vars

\* C10: a fill-credit request whose amount is no positive finite number is
\* answered 400 and never reaches the ledger.
C10_BadAmountRejected ==
    /\ (resp.route = "fill" /\ Ran(resp.stages, "handler")
           /\ ~PositiveFinite(resp.amount)) => resp.status = 400
    /\ \A s \in Slots : req[s].route = "fill" => PositiveFinite(req[s].amount)
    /\ \A u \in Usernames : UserOf(u).credit.s = "finite"

\* the username has no entry under ["users_by_username", ..]
Unindexed(username) == username \notin Usernames \/ kvIndex[username] = NoId

\* the fill-credit handler ran past its body check for an unindexed username
FillUnknown ==
    /\ resp = NoResp
    /\ resp'.route = "fill"
    /\ Ran(resp'.stages, "handler")
    /\ resp'.username # "" /\ resp'.amount.k = "number" /\ ~LeqZero(resp'.amount)
    /\ Unindexed(resp'.username)

\* C11: a fill-credit request for a username that has no entry in the
\* username index is answered 404 and creates or modifies no record; no such
\* request is ever admitted to the ledger.
C11_UnknownUserNotFound ==
    [][/\ FillUnknown => (resp'.status = 404 /\ UNCHANGED storeVars)
       /\ \A s \in Slots : req'[s].route = "fill" => ~Unindexed(req'[s].username)]_vars

\* a well-formed request for the unregistered name "al" has been answered 404
C11_Witness ==
    /\ resp.route = "fill"
    /\ resp.status = 404
    /\ resp.username = "al"
    /\ PositiveFinite(resp.amount)

\* a registration was abandoned after its first write: its record is stored,
\* the request is gone
AbandonedAfterFirstWrite ==
    /\ resp.route = "register" /\ resp.status = 500
    /\ \E i \in Ids : /\ kvUsers[i].username = resp.username
                      /\ \A s \in Slots : req[s].userId # i

\* C12: every username-index entry points to an existing primary record with
\* that username, also between the two writes of a registration and after a
\* registration was abandoned behind its first write.
C12_NoOrphanedIndex ==
    \A u \in Usernames :
       kvIndex[u] # NoId =>
          /\ kvUsers[kvIndex[u]] # NoUser
          /\ kvUsers[kvIndex[u]].username = u

\* a registration was abandoned after its first write while another username
\* is indexed
C12_Witness ==
    /\ AbandonedAfterFirstWrite
    /\ \E u \in Usernames : u # resp.username /\ kvIndex[u] # NoId

\* C13: every primary record with username u has the index entry of u, and
\* that entry holds the record's id, under any interleaving of register
\* requests and when a request is abandoned between its writes.
C13_EveryRecordIndexed ==
    \A i \in Ids :
       kvUsers[i] # NoUser => GetIndex(kvUsers[i].username) = i

\* the connections that have had a close or an error event
Disconnected == {k \in Socks : sock[k].readyState = "CLOSED"}

\* C14: a viewer connection that has had a close or an error event is no
\* longer in the hub's connection set, so that no later broadcast iterates
\* over it, and the set only ever holds connections in the Open state.
C14_OnlyOpenViewersKept ==
    /\ ClientSet \cap Disconnected = {}
    /\ \A k \in ClientSet : sock[k].readyState = "OPEN"

TwoCharString(result) == result.k = "string" /\ Len(result.s) = 2

\* the broadcast-result handler has just answered a request that passed the
\* gates
BroadcastAnswered ==
    /\ resp = NoResp
    /\ resp'.route = "broadcast"
    /\ Ran(resp'.stages, "handler")

\* C15: a broadcast-result request triggers a broadcast if and only if its
\* result is a string of exactly two characters; any other value is answered
\* 400 and no viewer receives an event from the request.
C15_BroadcastIffTwoChars ==
    [][BroadcastAnswered =>
         IF TwoCharString(resp'.result)
         THEN /\ resp'.status \in {200, 500}
              /\ resp'.raisedAt = NoId =>
                   \A k \in OpenViewers :
                      sock'[k].inbox = Append(sock[k].inbox, ResultEvent(resp'.result))
         ELSE /\ resp'.status = 400
              /\ UNCHANGED hubVars]_vars

\* a three-character result has been refused while a viewer is open
C15_Witness ==
    /\ resp.route = "broadcast"
    /\ resp.status = 400
    /\ resp.result = Str("123")
    /\ OpenViewers # {}

\* the failures of a fetch of the upstream feed: the promise rejects or the
\* body is no JSON, at the live fetch or at the history fallback
FetchFailures == {"live", "live_json", "history", "history_json"}

\* C16: when the manual override is empty and a fetch of the upstream feed,
\* live or history fallback, fails, /api/2d-proxy answers the sentinel, and
\* no failure after the override was found empty leaves the handler as an
\* exception.
C16_FetchFailureIsSentinel ==
    /\ presp.cause \in FetchFailures =>
         /\ ~ManualOverride(getConfig)
         /\ presp.kind = "json"
         /\ presp.body = Sentinel
    /\ presp.kind = "exception" => presp.cause = "config"

\* the override is blank, the live feed was empty and the history fetch failed
C16_Witness ==
    /\ kvConfig = Str(" ")
    /\ presp.cause = "history"
    /\ presp.body.live.twod = "--"

\* a fill-credit request for username u commits in this step
FillCommitted(u) ==
    \E s \in Slots : /\ req[s].route = "fill" /\ req[s].pc = "commit"
                     /\ req[s].username = u
                     /\ req'[s].pc = "read"

\* a <= b on credits
CreditLeq(a, b) ==
    \/ b.s = "Infinity"
    \/ a.s = "finite" /\ b.s = "finite" /\ a.v <= b.v

\* C17: once a username is registered, the credit and isAdmin seen through
\* its index entry change only in a step that commits a fill-credit for that
\* username: no other step changes or resets them, isAdmin never changes and
\* the credit never decreases.
C17_OnlyFillChangesCredit ==
    [][\A u \in Usernames :
         GetIndex(u) # NoId =>
            /\ UserOf(u)'.isAdmin = UserOf(u).isAdmin
            /\ UserOf(u)'.credit # UserOf(u).credit => FillCommitted(u)
            /\ CreditLeq(UserOf(u).credit, UserOf(u)'.credit)]_vars

\* the commit of the fill-credit request in slot s fails in this step: the
\* request ends without reaching the read that builds the success response
CommitFailed(s) ==
    /\ resp = NoResp
    /\ req[s].route = "fill" /\ req[s].pc = "commit"
    /\ req'[s] = Idle

\* C18: when the ledger commit of a fill-credit request fails, by reporting
\* failure or by raising, the request is answered 500, never 401 or success,
\* and no credit changes.
C18_CommitFailureIs500 ==
    [][\A s \in Slots :
         CommitFailed(s) =>
            /\ resp'.route = "fill"
            /\ resp'.username = req[s].username
            /\ resp'.status = 500
            /\ UNCHANGED storeVars]_vars

\* a commit has raised, after another request had credited the same user
C18_Witness ==
    /\ resp.route = "fill"
    /\ Ran(resp.stages, "onError")
    /\ UserOf(resp.username).credit # Num(0)

\* C19: the first event a viewer connection receives is its INFO event: a
\* connection enters the set and is sent INFO in one step, so every member of
\* the set has had its INFO and no RESULT of any broadcast comes before it.
C19_InfoFirst ==
    \A k \in Socks :
       /\ sock[k].inbox # <<>> => sock[k].inbox[1].type = "INFO"
       /\ k \in ClientSet => sock[k].inbox # <<>>

\* a viewer has received a RESULT, after its INFO, while a second viewer that
\* connected later has only its INFO
C19_Witness ==
    \E k, j \in Socks :
       /\ Len(sock[k].inbox) = 2 /\ sock[k].inbox[2].type = "RESULT"
       /\ Len(sock[j].inbox) = 1 /\ j \in ClientSet

\* the commit of the fill-credit request in slot s succeeds in this step
FillApplied(s) ==
    /\ req[s].route = "fill" /\ req[s].pc = "commit"
    /\ req'[s].pc = "read"

\* the fill-credit request in slot s has committed and not yet answered
FillAwaitsRead(s) == req[s].route = "fill" /\ req[s].pc = "read"

\* the fill-credit request in slot s answers in this step, after its commit
FillAnswered(s) ==
    /\ resp = NoResp
    /\ FillAwaitsRead(s)
    /\ req'[s] = Idle

\* C20: a successful fill-credit response reports a credit that includes the
\* request's own amount and that belongs to the record the amount was added
\* to: the commit leaves the record at its credit before plus the amount, no
\* fill-credit or register step between the commit and the read lowers that
\* record's credit or replaces the record, and the response reports the
\* record under the same key as it then is.
C20_ResponseIncludesDelta ==
    [][\A s \in Slots :
         /\ FillApplied(s) =>
              /\ req'[s].userId = req[s].userId
              /\ kvUsers'[req[s].userId].credit
                    = Plus(kvUsers[req[s].userId].credit, req[s].amount)
         /\ FillAwaitsRead(s) =>
              /\ kvUsers'[req[s].userId].id = req[s].userId
              /\ kvUsers'[req[s].userId].username = req[s].username
              /\ CreditLeq(kvUsers[req[s].userId].credit, kvUsers'[req[s].userId].credit)
         /\ FillAnswered(s) =>
              /\ resp'.status = 200
              /\ resp'.username = req[s].username
              /\ resp'.body = kvUsers[req[s].userId]]_vars

\* bob registered and was credited between the commit and the read of a
\* request for alice, whose response also shows a later credit to alice
C20_Witness ==
    /\ resp.route = "fill" /\ resp.status = 200
    /\ resp.username = "alice" /\ resp.amount = Num(1)
    /\ resp.body.credit = Num(2)
    /\ UserOf("bob").credit = Num(1)

====
